---- MODULE Spec2Model ----
(***************************************************************************)
(* A model of circular_progress_bar.py: the CircularProgressBar widget,    *)
(* its ten validated property setters, get_normalised_progress,            *)
(* _refresh_text and _draw, together with the heap of kivy Label objects   *)
(* the widgets refer to (labels are shared by reference, and the module    *)
(* level _DEFAULT_TEXT_LABEL is one object used by every instance).        *)
(*                                                                         *)
(* Python values are records [t, i, s]: t is the Python type, i the value  *)
(* of an int (or the identity of a Label object), s the characters of a    *)
(* str or the components of a tuple.  Texts of labels are sequences of     *)
(* tokens, "{}" being the replacement field of str.format.  Lengths on the *)
(* canvas are kept in half pixels, so that widget_size / 2 is exact.       *)
(***************************************************************************)
EXTENDS Integers, Sequences, FiniteSets, TLC

VARIABLES bars, labels, call

vars == <<bars, labels, call>>

---------------------------------------------------------------------------
(* Python values *)

IntV(n) == [t |-> "int", i |-> n, s |-> <<>>]
FloatV == [t |-> "float", i |-> 0, s |-> <<".", "5">>]
StrV(cs) == [t |-> "str", i |-> 0, s |-> cs]
TupleV(cs) == [t |-> "tuple", i |-> 0, s |-> cs]
LabelV(id) == [t |-> "Label", i |-> id, s |-> <<>>]
NoneV == [t |-> "NoneType", i |-> 0, s |-> <<>>]

---------------------------------------------------------------------------
(* Module level constants *)

_ACCEPTED_BAR_CAPS ==
    { <<"r", "o", "u", "n", "d">>, <<"n", "o", "n", "e">>,
      <<"s", "q", "u", "a", "r", "e">> }

_DEFAULT_THICKNESS == 10
_DEFAULT_CAP_STYLE == <<"r", "o", "u", "n", "d">>
_DEFAULT_PRECISION == 10
_DEFAULT_PROGRESS_COLOUR == TupleV(<<"1", "0", "0", "1">>)
_DEFAULT_BACKGROUND_COLOUR == TupleV(<<"0.26", "0.26", "0.26", "1">>)
_DEFAULT_MAX_PROGRESS == 100
_DEFAULT_MIN_PROGRESS == 0
_DEFAULT_WIDGET_SIZE == 200
\* The identity of the one Label object the module creates at import time.
_DEFAULT_TEXT_LABEL == 0
_NORMALISED_MAX == 1
_NORMALISED_MIN == 0

\* The two Label objects the example's kv string creates (#:set _label ...,
\* #:set _another_label ...), by identity.
_label == 1
_another_label == 2

LabelIds == {_DEFAULT_TEXT_LABEL, _label, _another_label}

\* The text each Label object is created with.
LabelTemplate(id) ==
    IF id = _DEFAULT_TEXT_LABEL THEN <<"{}", "%">>
    ELSE IF id = _label THEN <<"I am a label --=", "{}", "=--">>
    ELSE <<"Loading...", "{}", "%">>

LabelFontSize(id) ==
    IF id = _DEFAULT_TEXT_LABEL THEN 40 ELSE IF id = _label THEN 12 ELSE 10

\* A kivy.core.text.Label has no texture until refresh() is called.
NoTexture == <<"None">>

\* The heap of Label objects right after import / kv loading.
InitLabels ==
    [id \in LabelIds |->
        [text |-> LabelTemplate(id), font_size |-> LabelFontSize(id),
         texture |-> NoTexture]]

\* Widget.pos, which no setter of the class changes.
pos == <<0, 0>>

---------------------------------------------------------------------------
(* Pure helpers *)

\* str.lower() on the characters the inputs use.
lower(cs) ==
    [k \in DOMAIN cs |->
        CASE cs[k] = "R" -> "r" [] cs[k] = "N" -> "n" [] cs[k] = "D" -> "d"
          [] cs[k] = "S" -> "s" [] cs[k] = "U" -> "u" [] cs[k] = "A" -> "a"
          [] cs[k] = "E" -> "e" [] cs[k] = "O" -> "o" [] cs[k] = "Q" -> "q"
          [] cs[k] = "V" -> "v" [] cs[k] = "L" -> "l"
          [] OTHER -> cs[k]]

RECURSIVE lstrip(_)
lstrip(cs) ==
    IF cs # <<>> /\ Head(cs) = " " THEN lstrip(Tail(cs)) ELSE cs

RECURSIVE rstrip(_)
rstrip(cs) ==
    IF cs # <<>> /\ cs[Len(cs)] = " "
    THEN rstrip(SubSeq(cs, 1, Len(cs) - 1)) ELSE cs

\* str.strip()
strip(cs) == rstrip(lstrip(cs))

\* template.format(arg) for templates with at most one "{}" field: every
\* replacement field is replaced by the argument, a text without a field is
\* returned as it is.
format(template, arg) ==
    [k \in DOMAIN template |-> IF template[k] = "{}" THEN arg ELSE template[k]]

\* int(num / den) for den > 0: truncation towards zero.  Python computes the
\* quotient in double precision; for the progress ranges used here (multiples
\* of 50 between -100 and 300) the truncated double equals the exact one.
int(num, den) ==
    IF num >= 0 THEN num \div den ELSE -((-num) \div den)

\* Label.texture.size of a refreshed label: the rasteriser is external, the
\* width grows with the text and the font size, the height is one line.
TextureSize(lbl) == <<Len(lbl.texture) * lbl.font_size, lbl.font_size>>

---------------------------------------------------------------------------
(* CircularProgressBar *)

\* __init__: the attributes of a new instance, given the heap of labels at
\* the time of the call.
NewBar(lbls) ==
    [thickness |-> _DEFAULT_THICKNESS,
     cap_style |-> _DEFAULT_CAP_STYLE,
     cap_precision |-> _DEFAULT_PRECISION,
     progress_colour |-> _DEFAULT_PROGRESS_COLOUR,
     background_colour |-> _DEFAULT_BACKGROUND_COLOUR,
     max_progress |-> _DEFAULT_MAX_PROGRESS,
     min_progress |-> _DEFAULT_MIN_PROGRESS,
     widget_size |-> _DEFAULT_WIDGET_SIZE,
     text_label |-> _DEFAULT_TEXT_LABEL,
     value |-> _DEFAULT_MIN_PROGRESS,
     default_label_text |-> lbls[_DEFAULT_TEXT_LABEL].text,
     label_size |-> <<0, 0>>,
     canvas |-> <<>>]

\* get_normalised_progress raises ZeroDivisionError when max = min.
ZeroDivision(self) == self.max_progress - self.min_progress = 0

\* get_normalised_progress, as the fraction num / den.
get_normalised_progress(self) ==
    [num |-> _NORMALISED_MIN * (self.max_progress - self.min_progress)
               + (self.value - self.min_progress)
                 * (_NORMALISED_MAX - _NORMALISED_MIN),
     den |-> self.max_progress - self.min_progress]

\* int(self.get_normalised_progress() * 100)
Percent(self) ==
    int(get_normalised_progress(self).num * 100,
        get_normalised_progress(self).den)

\* _refresh_text: the label object the bar refers to gets the substituted
\* text and a new texture; the bar remembers the texture's size.
_refresh_text(self, lbls) ==
    LET id == self.text_label
        new == [lbls[id] EXCEPT
                   !.text = format(self.default_label_text,
                                   ToString(Percent(self))),
                   !.texture = format(self.default_label_text,
                                      ToString(Percent(self)))]
    IN  [bar |-> [self EXCEPT !.label_size = TextureSize(new)],
         labels |-> [lbls EXCEPT ![id] = new]]

\* Drawing instructions, all of one shape.  Lengths are in half pixels.
Color(rgba) ==
    [cmd |-> "Color", rgba |-> rgba, circle |-> <<>>,
     angle_start |-> 0, angle_end |-> [num |-> 0, den |-> 1], width |-> 0,
     cap |-> <<>>, cap_precision |-> 0, texture |-> <<>>,
     size |-> <<0, 0>>, pos |-> <<0, 0>>]

Line(circle, angle_end, width, cap, cap_precision) ==
    [cmd |-> "Line", rgba |-> <<>>, circle |-> circle,
     angle_start |-> 0, angle_end |-> angle_end, width |-> width,
     cap |-> cap, cap_precision |-> cap_precision, texture |-> <<>>,
     size |-> <<0, 0>>, pos |-> <<0, 0>>]

Rectangle(texture, size, at) ==
    [cmd |-> "Rectangle", rgba |-> <<>>, circle |-> <<>>,
     angle_start |-> 0, angle_end |-> [num |-> 0, den |-> 1], width |-> 0,
     cap |-> <<>>, cap_precision |-> 0, texture |-> texture,
     size |-> size, pos |-> at]

\* A circle given as (x, y, r) is drawn from 0 to 360 degrees.
FullCircle == [num |-> 360, den |-> 1]

\* The Line of the background takes kivy's defaults for cap and cap_precision.
KivyDefaultCap == <<"r", "o", "u", "n", "d">>
KivyDefaultCapPrecision == 10

\* (pos[0] + widget_size / 2, pos[1] + widget_size / 2,
\*  widget_size / 2 - thickness), in half pixels.
Circle(self) ==
    <<2 * pos[1] + self.widget_size, 2 * pos[2] + self.widget_size,
      self.widget_size - 2 * self.thickness>>

\* The instructions _draw adds after clearing the canvas; `self` has had its
\* text refreshed, `lbls` is the heap after the refresh.
Instructions(self, lbls) ==
    << Color(self.background_colour.s),
       Line(Circle(self), FullCircle, self.thickness,
            KivyDefaultCap, KivyDefaultCapPrecision),
       Color(self.progress_colour.s),
       Line(Circle(self),
            [num |-> get_normalised_progress(self).num * 360,
             den |-> get_normalised_progress(self).den],
            self.thickness, self.cap_style, self.cap_precision),
       Color(<<"1", "1", "1", "1">>),
       Rectangle(lbls[self.text_label].texture,
                 <<2 * self.label_size[1], 2 * self.label_size[2]>>,
                 <<self.widget_size - self.label_size[1] + 2 * pos[1],
                   self.widget_size - self.label_size[2] + 2 * pos[2]>>) >>

\* _draw: canvas.clear(), then _refresh_text(), then the instructions.  When
\* max = min, _refresh_text raises ZeroDivisionError after the canvas was
\* cleared and before the label is touched.
_draw(self, lbls) ==
    IF ZeroDivision(self)
    THEN [bar |-> [self EXCEPT !.canvas = <<>>], labels |-> lbls,
          result |-> "ZeroDivisionError"]
    ELSE LET r == _refresh_text([self EXCEPT !.canvas = <<>>], lbls)
         IN  [bar |-> [r.bar EXCEPT
                          !.canvas = @ \o Instructions(r.bar, r.labels)],
              labels |-> r.labels,
              result |-> "ok"]

---------------------------------------------------------------------------
(* The setters.  `call` records the last call: the instance, the property, *)
(* the argument, how the call ended ("ok" or the exception raised), the    *)
(* number of times it entered _draw, and the value stored before it.       *)

Call(b, op, v, result, draws) ==
    [bar |-> b, op |-> op, arg |-> v, result |-> result, draws |-> draws,
     was |-> IF b \in DOMAIN bars THEN bars[b].value
             ELSE _DEFAULT_MIN_PROGRESS]

\* raise before any assignment
Raise(b, op, v, error) ==
    /\ call' = Call(b, op, v, error, 0)
    /\ UNCHANGED <<bars, labels>>

\* an assignment to attributes of the instance alone
Store(b, op, v, self) ==
    /\ bars' = [bars EXCEPT ![b] = self]
    /\ call' = Call(b, op, v, "ok", 0)
    /\ UNCHANGED labels

set_thickness(b, v) ==
    IF v.t # "int" THEN Raise(b, "thickness", v, "TypeError")
    ELSE IF v.i <= 0 THEN Raise(b, "thickness", v, "ValueError")
    ELSE Store(b, "thickness", v, [bars[b] EXCEPT !.thickness = v.i])

set_cap_style(b, v) ==
    IF v.t # "str" THEN Raise(b, "cap_style", v, "TypeError")
    ELSE IF strip(lower(v.s)) \notin _ACCEPTED_BAR_CAPS
         THEN Raise(b, "cap_style", v, "ValueError")
    ELSE Store(b, "cap_style", v,
               [bars[b] EXCEPT !.cap_style = strip(lower(v.s))])

set_cap_precision(b, v) ==
    IF v.t # "int" THEN Raise(b, "cap_precision", v, "TypeError")
    ELSE IF v.i <= 0 THEN Raise(b, "cap_precision", v, "ValueError")
    ELSE Store(b, "cap_precision", v, [bars[b] EXCEPT !.cap_precision = v.i])

\* isinstance(value, Iterable)
Iterable(v) == v.t \in {"str", "tuple"}

set_progress_colour(b, v) ==
    IF ~Iterable(v) THEN Raise(b, "progress_colour", v, "TypeError")
    ELSE Store(b, "progress_colour", v,
               [bars[b] EXCEPT !.progress_colour = v])

set_background_colour(b, v) ==
    IF ~Iterable(v) THEN Raise(b, "background_colour", v, "TypeError")
    ELSE Store(b, "background_colour", v,
               [bars[b] EXCEPT !.background_colour = v])

\* set_max with the assignment made before the comparison with min.
set_max_commit_first(b, v) ==
    IF v.t # "int" THEN Raise(b, "max", v, "TypeError")
    ELSE IF v.i <= bars[b].min_progress
         THEN /\ bars' = [bars EXCEPT ![b].max_progress = v.i]
              /\ call' = Call(b, "max", v, "ValueError", 0)
              /\ UNCHANGED labels
    ELSE Store(b, "max", v, [bars[b] EXCEPT !.max_progress = v.i])

set_max(b, v) ==
    IF v.t # "int" THEN Raise(b, "max", v, "TypeError")
    ELSE IF v.i <= bars[b].min_progress THEN Raise(b, "max", v, "ValueError")
    ELSE Store(b, "max", v, [bars[b] EXCEPT !.max_progress = v.i])

\* set_min without the reset of the value.
set_min_keeps_value(b, v) ==
    IF v.t # "int" THEN Raise(b, "min", v, "TypeError")
    ELSE IF v.i > bars[b].max_progress THEN Raise(b, "min", v, "ValueError")
    ELSE Store(b, "min", v, [bars[b] EXCEPT !.min_progress = v.i])

set_min(b, v) ==
    IF v.t # "int" THEN Raise(b, "min", v, "TypeError")
    ELSE IF v.i > bars[b].max_progress THEN Raise(b, "min", v, "ValueError")
    ELSE Store(b, "min", v,
               [bars[b] EXCEPT !.min_progress = v.i, !.value = v.i])

set_value(b, v) ==
    IF v.t # "int" THEN Raise(b, "value", v, "TypeError")
    ELSE IF bars[b].min_progress > v.i /\ v.i > bars[b].max_progress
         THEN Raise(b, "value", v, "ValueError")
    ELSE IF v.i # bars[b].value
         THEN LET d == _draw([bars[b] EXCEPT !.value = v.i], labels)
              IN  /\ bars' = [bars EXCEPT ![b] = d.bar]
                  /\ labels' = d.labels
                  /\ call' = Call(b, "value", v, d.result, 1)
    ELSE /\ call' = Call(b, "value", v, "ok", 0)
         /\ UNCHANGED <<bars, labels>>

set_widget_size(b, v) ==
    IF v.t # "int" THEN Raise(b, "widget_size", v, "TypeError")
    ELSE IF v.i <= 0 THEN Raise(b, "widget_size", v, "ValueError")
    ELSE Store(b, "widget_size", v, [bars[b] EXCEPT !.widget_size = v.i])

set_label(b, v) ==
    IF v.t # "Label" THEN Raise(b, "label", v, "TypeError")
    ELSE Store(b, "label", v,
               [bars[b] EXCEPT !.text_label = v.i,
                               !.default_label_text = labels[v.i].text])

\* CircularProgressBar(): a further instance is created.
Construct(b) ==
    /\ b \notin DOMAIN bars
    /\ bars' = [x \in DOMAIN bars \cup {b} |->
                   IF x = b THEN NewBar(labels) ELSE bars[x]]
    /\ call' = Call(b, "__init__", NoneV, "ok", 0)
    /\ UNCHANGED labels

---------------------------------------------------------------------------
(* Inputs *)

\* The integers given to max, min and value are the multiples of 50 from
\* -50 to 50 * MaxK.
MaxK == 3
Progress == { IntV(50 * k) : k \in -1 .. MaxK }

ThicknessArgs == { FloatV, IntV(0), IntV(15) }
CapStyleArgs ==
    { IntV(1), StrV(<<"o", "v", "a", "l">>),
      StrV(<<" ", "S", "q", "U", "A", "r", "E", " ">>) }
PrecisionArgs == { FloatV, IntV(0), IntV(3) }
ColourArgs == { IntV(1), StrV(<<"0", "1", "0">>) }
SizeArgs == { FloatV, IntV(0), IntV(300) }
LabelArgs == { StrV(<<"{}", "%">>) } \cup { LabelV(id) : id \in LabelIds }
ValueArgs == { IntV(0), IntV(50), IntV(100) }

---------------------------------------------------------------------------
(* Specifications *)

\* One instance has been created; nothing has been drawn.
Init ==
    /\ labels = InitLabels
    /\ bars = [b \in {"A"} |-> NewBar(InitLabels)]
    /\ call = Call("A", "__init__", NoneV, "ok", 0)

\* One instance, all ten setters.
Next ==
    \/ \E v \in ThicknessArgs : set_thickness("A", v)
    \/ \E v \in CapStyleArgs : set_cap_style("A", v)
    \/ \E v \in PrecisionArgs : set_cap_precision("A", v)
    \/ \E v \in ColourArgs : set_progress_colour("A", v)
    \/ \E v \in {IntV(1), _DEFAULT_BACKGROUND_COLOUR} :
          set_background_colour("A", v)
    \/ \E v \in {FloatV, IntV(0), IntV(150)} : set_max("A", v)
    \/ \E v \in {FloatV, IntV(150)} : set_min("A", v)
    \/ \E v \in {FloatV, IntV(50)} : set_value("A", v)
    \/ \E v \in SizeArgs : set_widget_size("A", v)
    \/ \E v \in {StrV(<<"{}", "%">>), LabelV(_label)} : set_label("A", v)

Spec == Init /\ [][Next]_vars

\* One instance, the three setters of the progress range.
NextRange ==
    \/ \E v \in Progress \cup {FloatV} : set_max("A", v)
    \/ \E v \in Progress \cup {FloatV} : set_min("A", v)
    \/ \E v \in Progress \cup {FloatV} : set_value("A", v)

SpecRange == Init /\ [][NextRange]_vars

\* One instance, its label and its value.
NextLabel ==
    \/ \E v \in LabelArgs : set_label("A", v)
    \/ \E v \in ValueArgs : set_value("A", v)

SpecLabel == Init /\ [][NextLabel]_vars

\* Two instances, the second created at any time, with their values and labels.
NextTwo ==
    \/ Construct("B")
    \/ \E b \in DOMAIN bars : \E v \in {IntV(0), IntV(50)} : set_value(b, v)
    \/ \E b \in DOMAIN bars :
          \E v \in {LabelV(_DEFAULT_TEXT_LABEL), LabelV(_label)} :
             set_label(b, v)

SpecTwo == Init /\ [][NextTwo]_vars

---------------------------------------------------------------------------
(* Properties *)

Errors == {"TypeError", "ValueError"}

\* The instance the last call was made on, before and after the call.
Before == bars[call'.bar]
After == bars'[call'.bar]

\* The last call was value = v with an integer v.
IntCall(op) == call'.op = op /\ call'.arg.t = "int"

\* The canvas holds the six instructions of one _draw and nothing else.
OneDrawing(self) ==
    /\ Len(self.canvas) = 6
    /\ [k \in 1 .. 6 |-> self.canvas[k].cmd]
         = <<"Color", "Line", "Color", "Line", "Color", "Rectangle">>

\* C1: after any sequence of setter calls on a default instance, the stored
\* state satisfies min <= value <= max.
C1_ValueWithinBounds ==
    \A b \in DOMAIN bars :
        /\ bars[b].min_progress <= bars[b].value
        /\ bars[b].value <= bars[b].max_progress

\* C2: in every state reachable through set_min and set_max, max is strictly
\* greater than min, so get_normalised_progress never divides by zero.
C2_MaxAboveMin ==
    \A b \in DOMAIN bars : bars[b].max_progress > bars[b].min_progress

\* C3: value = v with an integer v < min or v > max raises ValueError, the
\* stored value is unchanged and nothing is redrawn.
C3_OutOfRangeRejected ==
    [][ (/\ IntCall("value")
         /\ \/ call'.arg.i < Before.min_progress
            \/ call'.arg.i > Before.max_progress)
        => /\ call'.result = "ValueError"
           /\ After.value = Before.value
           /\ call'.draws = 0
           /\ After.canvas = Before.canvas ]_vars

\* C4: a setter that raises TypeError or ValueError leaves every attribute of
\* the instance, every label and the canvas as they were, and does not redraw.
C4_FailedSetterChangesNothing ==
    [][ call'.result \in Errors
        => /\ bars' = bars
           /\ labels' = labels
           /\ call'.draws = 0 ]_vars

\* A setter has raised ValueError on an instance that had been given another
\* label and had drawn itself.
C4_Witness ==
    /\ call.result = "ValueError"
    /\ bars[call.bar].canvas # <<>>
    /\ bars[call.bar].text_label = _label

\* C5: only value = v with v different from the stored value redraws; value = v
\* with the stored value changes nothing; an accepted v different from the
\* stored value redraws exactly once, and the redraw completes within the call.
C5_RedrawOnlyOnValueChange ==
    [][ /\ call'.draws > 0
           => IntCall("value") /\ call'.arg.i # Before.value
        /\ (IntCall("value") /\ call'.arg.i = Before.value)
           => /\ call'.draws = 0
              /\ bars' = bars
              /\ labels' = labels
        /\ (/\ IntCall("value")
            /\ call'.result \notin Errors
            /\ call'.arg.i # Before.value)
           => /\ call'.draws = 1
              /\ call'.result = "ok"
              /\ After.value = call'.arg.i
              /\ OneDrawing(After) ]_vars

\* What is drawn and shown is what is stored.
Clean(self, lbls) ==
    /\ ~ZeroDivision(self)
    /\ OneDrawing(self)
    /\ self.canvas[4].angle_end
         = [num |-> get_normalised_progress(self).num * 360,
            den |-> get_normalised_progress(self).den]
    /\ lbls[self.text_label].text
         = format(self.default_label_text, ToString(Percent(self)))

\* C6: when a call has changed the value, the minimum or the maximum, the
\* instance is clean on return: the last redraw used the stored value and
\* its percentage.
C6_CleanAfterChange ==
    [][ (\/ After.value # Before.value
         \/ After.min_progress # Before.min_progress
         \/ After.max_progress # Before.max_progress)
        => Clean(After, labels') ]_vars

\* C7: a successful min = m leaves min = m and value = m, whatever the value
\* was, and leaves max unchanged.
C7_SetMinResetsValue ==
    [][ (IntCall("min") /\ call'.result = "ok")
        => /\ After.min_progress = call'.arg.i
           /\ After.value = call'.arg.i
           /\ After.max_progress = Before.max_progress ]_vars

\* min = m has succeeded on an instance that had drawn itself and whose value
\* was another one.
C7_Witness ==
    /\ call.op = "min"
    /\ call.result = "ok"
    /\ call.was # call.arg.i
    /\ call.was # _DEFAULT_MIN_PROGRESS
    /\ bars[call.bar].canvas # <<>>
    /\ bars[call.bar].value = call.arg.i

\* C8: the text a redraw produces is the text the label object of the most
\* recent label = ... was created with, its field replaced by the percentage;
\* it is never a substitution into a substituted text.
C8_SubstitutesIntoOriginalTemplate ==
    [][ (call'.draws > 0 /\ call'.result = "ok")
        => labels'[After.text_label].text
             = format(LabelTemplate(After.text_label),
                      ToString(Percent(After))) ]_vars

\* C9: a call on one instance changes nothing of another instance, neither
\* its attributes nor the text of its label; and a new instance starts with
\* the template "{}%".
C9_InstancesIndependent ==
    [][ /\ \A x \in DOMAIN bars :
              x # call'.bar
              => /\ bars'[x] = bars[x]
                 /\ labels'[bars[x].text_label] = labels[bars[x].text_label]
        /\ call'.op = "__init__"
           => After.default_label_text = <<"{}", "%">> ]_vars

\* C10: every redraw leaves on the canvas the instructions of that redraw
\* alone: the background arc over 360 degrees, then the progress arc from 0
\* to normalised progress * 360 degrees, an angle between 0 and 360.
C10_RedrawGeometry ==
    [][ call'.draws > 0
        => /\ OneDrawing(After)
           /\ After.canvas[2].angle_start = 0
           /\ After.canvas[2].angle_end = FullCircle
           /\ After.canvas[4].angle_start = 0
           /\ After.canvas[4].angle_end.den > 0
           /\ After.canvas[4].angle_end.num
                = get_normalised_progress(After).num * 360
           /\ After.canvas[4].angle_end.den
                = get_normalised_progress(After).den
           /\ 0 <= After.canvas[4].angle_end.num
           /\ After.canvas[4].angle_end.num
                <= 360 * After.canvas[4].angle_end.den ]_vars

====
